---- MODULE Spec2Model ----
(***************************************************************************)
(* Model of zmq2mjpeg/objdetect.py, class ObjDetect: the post-processing   *)
(* of the detector's raw output (non_max_suppression), the label           *)
(* aggregation of detect_frame and the annotation done by draw_boxes.      *)
(*                                                                         *)
(* Scores are counted in hundredths (0.5 is 50, 0.91 is 91).  Normalized   *)
(* box coordinates are counted in quarters (0.25 is 1, 1.25 is 5): every   *)
(* such value and its product with a small frame size is exact in          *)
(* float32, so the rounding modelled here is the one the code performs.    *)
(* One behaviour is one call: Init draws the constructed object and the    *)
(* arguments of the pending call, the action performs the call.            *)
(***************************************************************************)
EXTENDS Integers, Sequences, FiniteSets, TLC

VARIABLES
    valid_labels,   \* self.valid_labels
    min_score,      \* self.min_score
    call,           \* the pending call and its arguments
    frame,          \* the frame object handed to detect_frame / draw_boxes
    status,         \* "pending", "returned" or "raised"
    out_scores,     \* returned by non_max_suppression
    out_boxes,
    out_classes,
    detections      \* returned by detect_frame

vars == <<valid_labels, min_score, call, frame, status,
          out_scores, out_boxes, out_classes, detections>>

---------------------------------------------------------------------------
(* Bounds of the model *)

MaxN == 3          \* longest input of a direct non_max_suppression call
MaxCap == 2        \* largest explicit max_boxes argument besides the default
MaxFree == 2       \* freely chosen entries of a model output
PadLen == 9        \* entries that precede the free ones in a padded output
RampLen == 12      \* length of the all-distinct model output
MaxDraw == 2       \* longest input of a direct draw_boxes call
FrameH == 2        \* frame height in pixels
FrameW == 3        \* frame width in pixels

(* Program constants *)

MaxBoxesDefault == 10        \* max_boxes=10
MinScoreThreshDefault == 50  \* min_score_thresh=0.5
MinScoreDefault == 60        \* min_score=0.6

---------------------------------------------------------------------------
(* Helpers *)

Range(s) == {s[i] : i \in DOMAIN s}

Min(a, b) == IF a < b THEN a ELSE b

Max(a, b) == IF a > b THEN a ELSE b

SeqsUpTo(S, n) == UNION {[1..k -> S] : k \in 0..n}

EmptyMap == [x \in {} |-> 0]

---------------------------------------------------------------------------
(* self.class_names: the catalog, indexed from 0 in the code *)

class_names ==
    << "None1", "person", "bicycle", "car", "motorbike", "airplane", "bus",
       "train", "truck", "boat", "traffic light", "fire hydrant", "None12",
       "stop sign", "parking meter", "bench", "bird", "cat", "dog", "horse",
       "sheep", "cow", "elephant", "bear", "zebra", "giraffe", "None",
       "backpack", "umbrella", "None29", "Noe30", "handbag", "tie",
       "suitcase", "frisbee", "skis", "snowboard", "sports ball", "kite",
       "baseball bat", "baseball glove", "skateboard", "surfboard",
       "tennis racket", "bottle", "None45", "wine glass", "cup", "fork",
       "knife", "spoon", "bowl", "banana", "apple", "sandwich", "orange",
       "broccoli", "carrot", "hot dog", "pizza", "donut", "cake", "chair",
       "sofa", "pottedplant", "bed", "None66", "diningtable", "None68",
       "None69", "toilet", "None71", "tvmonitor", "laptop", "mouse",
       "remote", "keyboard", "cell phone", "microwave", "oven", "toaster",
       "sink", "refrigerator", "None83", "book", "clock", "vase",
       "scissors", "teddy bear", "hair drier", "toothbrush" >>

NumClasses == Len(class_names)

\* self.class_names[c] raises IndexError outside -len .. len-1
LookupRaises(c) == c >= NumClasses \/ c < -NumClasses

\* self.class_names[c]; a negative c counts from the end of the list
ClassName(c) == IF c >= 0 THEN class_names[c + 1]
                ELSE class_names[c + NumClasses + 1]

---------------------------------------------------------------------------
(* non_max_suppression(scores, boxes, classes, max_boxes, min_score_thresh) *)
(* scores_kind tells what the scores argument is: "array" (a sequence      *)
(* parallel to boxes), "none" (None) or "scalar" (a 0-d array, which       *)
(* np.squeeze makes of a one-element tensor).                              *)

\* if not max_boxes: max_boxes = boxes.shape[0]
EffMaxBoxes(max_boxes, n) == IF max_boxes = 0 THEN n ELSE max_boxes

\* mutant: the loop runs over every entry, the cap forgotten
LoopStop_NoCap(max_boxes, n) == n

\* range(min(max_boxes, boxes.shape[0])): the number of iterations
LoopStop(max_boxes, n) == Max(0, Min(EffMaxBoxes(max_boxes, n), n))

\* mutant: >= in place of >
ExceedsThresh_OrEqual(score, thresh) == score >= thresh

\* scores[i] > min_score_thresh
ExceedsThresh(score, thresh) == score > thresh

NmsEmpty == [raised |-> FALSE, out_scores |-> <<>>, out_boxes |-> <<>>,
             out_classes |-> <<>>]

NmsRaise == [raised |-> TRUE, out_scores |-> <<>>, out_boxes |-> <<>>,
             out_classes |-> <<>>]

\* mutant: the kept entries are pushed at the front
NmsAppend_Front(acc, a, i) ==
    [acc EXCEPT !.out_boxes = <<a.boxes[i + 1]>> \o @,
                !.out_scores = <<a.scores[i + 1]>> \o @,
                !.out_classes = <<a.classes[i + 1]>> \o @]

\* out_boxes.append(boxes[i]); out_scores.append(scores[i]);
\* out_classes.append(classes[i])
NmsAppend(acc, a, i) ==
    [acc EXCEPT !.out_boxes = Append(@, a.boxes[i + 1]),
                !.out_scores = Append(@, a.scores[i + 1]),
                !.out_classes = Append(@, a.classes[i + 1])]

\* the for loop, from iteration i (counted from 0 as in the code) on
RECURSIVE NmsLoop(_, _, _, _)
NmsLoop(a, i, stop, acc) ==
    IF i >= stop THEN acc
    ELSE IF a.scores_kind = "none"
         THEN NmsRaise    \* "scores is None" holds, then scores[i]: TypeError
    ELSE IF a.scores_kind = "scalar"
         THEN NmsRaise    \* scores[i] on a 0-d array: IndexError
    ELSE IF ExceedsThresh(a.scores[i + 1], a.thresh)
         THEN NmsLoop(a, i + 1, stop, NmsAppend(acc, a, i))
    ELSE NmsLoop(a, i + 1, stop, acc)

non_max_suppression(a) ==
    NmsLoop(a, 0, LoopStop(a.max_boxes, Len(a.boxes)), NmsEmpty)

---------------------------------------------------------------------------
(* draw_boxes(image, out_scores, out_boxes, out_classes) *)

\* astype('int32') of an integral value: every value the model forms lies far
\* inside -2^31 .. 2^31 - 1, where the cast keeps the value
ToInt32(x) == x

\* np.floor(q / 4 * size + 0.5).astype('int32') for a coordinate of q quarters
PixelRound(q, size) == ToInt32((q * size + 2) \div 4)

\* top = max(0, ...)
PixelTop(box, h) == Max(0, PixelRound(box[1], h))

\* left = max(0, ...)
PixelLeft(box, w) == Max(0, PixelRound(box[2], w))

\* bottom = min(h, ...)
PixelBottom(box, h) == Min(h, PixelRound(box[3], h))

\* right = min(w, ...)
PixelRight(box, w) == Min(w, PixelRound(box[4], w))

\* mutant: the allow-list is never consulted
LabelSkipped_Never(labels, predicted_class) == FALSE

\* if self.valid_labels and predicted_class not in self.valid_labels: continue
LabelSkipped(labels, predicted_class) ==
    labels # <<>> /\ predicted_class \notin Range(labels)

\* the rectangle, the label background and the label text of one detection
Annotation(image, c, score, box) ==
    [label |-> ClassName(c), score |-> score, color |-> c,
     left |-> PixelLeft(box, image.w), top |-> PixelTop(box, image.h),
     right |-> PixelRight(box, image.w), bottom |-> PixelBottom(box, image.h)]

\* the loop over reversed(list(enumerate(out_classes))), from index i down;
\* a read-only frame is refused by the first cv2.rectangle call
RECURSIVE DrawLoop(_, _, _, _, _, _)
DrawLoop(labels, image, scores, boxes, classes, i) ==
    IF i < 1 THEN [raised |-> FALSE, image |-> image]
    ELSE IF LookupRaises(classes[i]) THEN [raised |-> TRUE, image |-> image]
    ELSE IF LabelSkipped(labels, ClassName(classes[i]))
         THEN DrawLoop(labels, image, scores, boxes, classes, i - 1)
    ELSE IF image.kind = "readonly" THEN [raised |-> TRUE, image |-> image]
    ELSE DrawLoop(labels,
                  [image EXCEPT !.drawn =
                      Append(@, Annotation(image, classes[i], scores[i], boxes[i]))],
                  scores, boxes, classes, i - 1)

draw_boxes(labels, image, scores, boxes, classes) ==
    DrawLoop(labels, image, scores, boxes, classes, Len(classes))

---------------------------------------------------------------------------
(* run_detection(image) on the raw output tensors of the interpreter *)

\* mutant: the + 1 shift forgotten
ShiftClasses_NoShift(classes) == [i \in DOMAIN classes |-> ToInt32(classes[i])]

\* np.squeeze(classes + 1).astype(np.int32)
ShiftClasses(classes) == [i \in DOMAIN classes |-> ToInt32(classes[i] + 1)]

\* np.squeeze of the three tensors: a batch of one detection loses its
\* detection axis too, so boxes becomes the 4 coordinates and scores and
\* classes become 0-d arrays
SqueezedArgs(raw) ==
    IF Len(raw.scores) = 1
    THEN [scores_kind |-> "scalar", scores |-> raw.scores,
          boxes |-> raw.boxes[1], classes |-> ShiftClasses(raw.classes)]
    ELSE [scores_kind |-> "array", scores |-> raw.scores,
          boxes |-> raw.boxes, classes |-> ShiftClasses(raw.classes)]

\* mutant: the score cutoff left to detect_frame's min_score
NmsDefaults_NoThresh(sq) ==
    [scores_kind |-> sq.scores_kind, scores |-> sq.scores, boxes |-> sq.boxes,
     classes |-> sq.classes, max_boxes |-> MaxBoxesDefault, thresh |-> 0]

\* self.non_max_suppression(scores, boxes, classes): the defaults apply
NmsDefaults(sq) ==
    [scores_kind |-> sq.scores_kind, scores |-> sq.scores, boxes |-> sq.boxes,
     classes |-> sq.classes, max_boxes |-> MaxBoxesDefault,
     thresh |-> MinScoreThreshDefault]

run_detection(raw) ==
    IF ~raw.invoke_ok THEN NmsRaise
    ELSE non_max_suppression(NmsDefaults(SqueezedArgs(raw)))

---------------------------------------------------------------------------
(* detect_frame(frame, draw) *)

\* cv2.cvtColor / cv2.resize refuse an empty frame
PreprocessRaises(image) == image.kind = "empty"

\* if score < self.min_score: continue
BelowMinScore(score, minscore) == score < minscore

\* mutant: a label already in the mapping keeps its score
Store_KeepExisting(det, predicted_class, score) == det @@ (predicted_class :> score)

\* detections[predicted_class] = score
Store(det, predicted_class, score) == (predicted_class :> score) @@ det

\* the loop over reversed(list(enumerate(out_classes))), from index i down
RECURSIVE AggLoop(_, _, _, _, _, _)
AggLoop(labels, minscore, scores, classes, i, det) ==
    IF i < 1 THEN [raised |-> FALSE, detections |-> det]
    ELSE IF LookupRaises(classes[i]) THEN [raised |-> TRUE, detections |-> det]
    ELSE IF LabelSkipped(labels, ClassName(classes[i]))
         THEN AggLoop(labels, minscore, scores, classes, i - 1, det)
    ELSE IF BelowMinScore(scores[i], minscore)
         THEN AggLoop(labels, minscore, scores, classes, i - 1, det)
    ELSE AggLoop(labels, minscore, scores, classes, i - 1,
                 Store(det, ClassName(classes[i]), scores[i]))

\* an exception leaves the caller without a mapping; the frame object is
\* whatever the call made of it
Raised(image) == [raised |-> TRUE, detections |-> EmptyMap, image |-> image]

\* mutant: the frame is annotated before the labels are aggregated
detect_frame_DrawFirst(labels, minscore, image, raw, draw) ==
    LET rd  == run_detection(raw)
        dr  == draw_boxes(labels, image, rd.out_scores, rd.out_boxes, rd.out_classes)
        agg == AggLoop(labels, minscore, rd.out_scores, rd.out_classes,
                       Len(rd.out_classes), EmptyMap)
    IN  IF PreprocessRaises(image) THEN Raised(image)
        ELSE IF rd.raised THEN Raised(image)
        ELSE IF draw /\ dr.raised THEN Raised(dr.image)
        ELSE IF agg.raised THEN Raised(IF draw THEN dr.image ELSE image)
        ELSE [raised |-> FALSE, detections |-> agg.detections,
              image |-> IF draw THEN dr.image ELSE image]

detect_frame(labels, minscore, image, raw, draw) ==
    LET rd  == run_detection(raw)
        agg == AggLoop(labels, minscore, rd.out_scores, rd.out_classes,
                       Len(rd.out_classes), EmptyMap)
        dr  == draw_boxes(labels, image, rd.out_scores, rd.out_boxes, rd.out_classes)
    IN  IF PreprocessRaises(image) THEN Raised(image)
        ELSE IF rd.raised THEN Raised(image)
        ELSE IF agg.raised THEN Raised(image)
        ELSE IF ~draw
             THEN [raised |-> FALSE, detections |-> agg.detections, image |-> image]
        ELSE IF dr.raised THEN Raised(dr.image)
        ELSE [raised |-> FALSE, detections |-> agg.detections, image |-> dr.image]

---------------------------------------------------------------------------
(* The calls the model makes *)

\* boxes (ymin, xmin, ymax, xmax) in quarters: inside the frame, out of
\* range on each side, and the whole frame
SampleBoxes == << <<1, 1, 3, 3>>, <<-2, 5, 6, -1>>, <<5, -2, -1, 6>>, <<0, 0, 4, 4>> >>

BoxAt(i) == SampleBoxes[((i - 1) % Len(SampleBoxes)) + 1]

Entry(score, cls) == [score |-> score, cls |-> cls]

ScoresOf(e) == [i \in DOMAIN e |-> e[i].score]
ClassesOf(e) == [i \in DOMAIN e |-> e[i].cls]
BoxesOf(e) == [i \in DOMAIN e |-> BoxAt(i)]

MkCall(op, kind, e, max_boxes, thresh, ok, draw, image_kind) ==
    [op |-> op, scores_kind |-> kind, scores |-> ScoresOf(e), boxes |-> BoxesOf(e),
     classes |-> ClassesOf(e), max_boxes |-> max_boxes, thresh |-> thresh,
     invoke_ok |-> ok, draw |-> draw, image_kind |-> image_kind]

NmsEntries == {Entry(s, c) : s \in {50, 55, 90}, c \in {1, 3}}
MaxBoxesArgs == (-1 .. MaxCap) \cup {MaxBoxesDefault}
Thresholds == {MinScoreThreshDefault, 55}

NmsCalls ==
    {MkCall("nms", k, e, m, t, TRUE, FALSE, "valid") :
        k \in {"array", "none"}, e \in SeqsUpTo(NmsEntries, MaxN),
        m \in MaxBoxesArgs, t \in Thresholds}

DrawEntries == {Entry(70, c) : c \in {3, 18, NumClasses}}

DrawCalls ==
    {MkCall("draw", "array", e, 0, 0, TRUE, TRUE, k) :
        e \in SeqsUpTo(DrawEntries, MaxDraw), k \in {"valid", "readonly"}}

\* raw detections: the class index is the model's, before the shift
RawEntries == {Entry(s, c) : s \in {50, 55, 70, 90}, c \in {2, 17, NumClasses - 1}}
PadEntry == Entry(55, NumClasses - 2)
Padding == [i \in 1..PadLen |-> PadEntry]
Ramp == [i \in 1..RampLen |-> Entry(91, i - 1)]

RawOutputs ==
    SeqsUpTo(RawEntries, MaxFree)
    \cup {Padding \o e : e \in SeqsUpTo(RawEntries, MaxFree)}
    \cup {Ramp}

DetectCalls ==
    {MkCall("detect", "array", e, 0, 0, TRUE, d, k) :
        e \in RawOutputs, d \in BOOLEAN, k \in {"valid", "empty", "readonly"}}
    \cup {MkCall("detect", "array", <<>>, 0, 0, FALSE, d, "valid") : d \in BOOLEAN}

\* ObjDetect(model_path, valid_labels=None, min_score=0.6):
\* self.valid_labels = valid_labels or []
ValidLabelsArgs == {[none |-> TRUE, val |-> <<>>], [none |-> FALSE, val |-> <<>>],
                    [none |-> FALSE, val |-> <<"car">>]}

OrEmpty(arg) == IF arg.none \/ arg.val = <<>> THEN <<>> ELSE arg.val

MinScoreArgs == {40, MinScoreDefault}

\* non_max_suppression is a static method: the object's configuration plays
\* no part in it and is left at the constructor's defaults
Init ==
    /\ \/ /\ \E arg \in ValidLabelsArgs : valid_labels = OrEmpty(arg)
          /\ min_score \in MinScoreArgs
          /\ call \in DrawCalls \cup DetectCalls
       \/ /\ valid_labels = OrEmpty([none |-> TRUE, val |-> <<>>])
          /\ min_score = MinScoreDefault
          /\ call \in NmsCalls
    /\ frame = [kind |-> call.image_kind, h |-> FrameH, w |-> FrameW, drawn |-> <<>>]
    /\ status = "pending"
    /\ out_scores = <<>>
    /\ out_boxes = <<>>
    /\ out_classes = <<>>
    /\ detections = EmptyMap

NonMaxSuppression ==
    /\ status = "pending"
    /\ call.op = "nms"
    /\ LET r == non_max_suppression(call)
       IN  /\ status' = IF r.raised THEN "raised" ELSE "returned"
           /\ out_scores' = r.out_scores
           /\ out_boxes' = r.out_boxes
           /\ out_classes' = r.out_classes
    /\ UNCHANGED <<valid_labels, min_score, call, frame, detections>>

DrawBoxes ==
    /\ status = "pending"
    /\ call.op = "draw"
    /\ LET r == draw_boxes(valid_labels, frame, call.scores, call.boxes, call.classes)
       IN  /\ status' = IF r.raised THEN "raised" ELSE "returned"
           /\ frame' = r.image
    /\ UNCHANGED <<valid_labels, min_score, call, out_scores, out_boxes,
                   out_classes, detections>>

DetectFrame ==
    /\ status = "pending"
    /\ call.op = "detect"
    /\ LET r == detect_frame(valid_labels, min_score, frame, call, call.draw)
       IN  /\ status' = IF r.raised THEN "raised" ELSE "returned"
           /\ detections' = r.detections
           /\ frame' = r.image
    /\ UNCHANGED <<valid_labels, min_score, call, out_scores, out_boxes, out_classes>>

Next == NonMaxSuppression \/ DrawBoxes \/ DetectFrame

Spec == Init /\ [][Next]_vars

---------------------------------------------------------------------------
(* Vocabulary of the properties *)

NmsReturned == call.op = "nms" /\ status = "returned"
DetectReturned == call.op = "detect" /\ status = "returned"
DetectRaised == call.op = "detect" /\ status = "raised"

\* the label at catalog index k + 1, k being a class index of the model
LabelOfRaw(k) == class_names[k + 2]

\* the indices (from 1) of the raw detections the Result Filter keeps when
\* called by run_detection: among the first 10, score above 0.5
FilteredIdx == {i \in 1..Min(10, Len(call.scores)) : call.scores[i] > 50}

\* the same input entry at index i and output entry at index j
SameEntry(i, j) ==
    /\ out_scores[j] = call.scores[i]
    /\ out_boxes[j] = call.boxes[i]
    /\ out_classes[j] = call.classes[i]

---------------------------------------------------------------------------
(* C1: non_max_suppression with max_boxes = 0 examines all n entries and   *)
(* returns at most n of them; with max_boxes = k > 0 it returns at most    *)
(* min(k, n) entries and each of them is an input entry at an index below  *)
(* k.                                                                      *)
C1_CapRespected ==
    NmsReturned =>
        LET n == Len(call.boxes)
            k == call.max_boxes
        IN  /\ Len(out_scores) <= n
            /\ Len(out_boxes) <= n
            /\ Len(out_classes) <= n
            /\ k > 0 =>
                /\ Len(out_scores) <= Min(k, n)
                /\ \A j \in DOMAIN out_scores :
                       \E i \in 1..Min(k, n) : SameEntry(i, j)
            /\ (k = 0 /\ call.scores_kind = "array") =>
                \A i \in 1..n : call.scores[i] > call.thresh =>
                    \E j \in DOMAIN out_scores : SameEntry(i, j)

\* a call with cap 1 on three entries, the second of which passes the threshold
C1_Witness ==
    /\ NmsReturned
    /\ call.max_boxes = 1
    /\ Len(call.boxes) = 3
    /\ call.scores[1] > call.thresh
    /\ call.scores[2] > call.thresh
    /\ Len(out_scores) = 1

(* C2: every score non_max_suppression returns is strictly greater than    *)
(* the threshold; a score equal to the threshold does not survive.         *)
C2_StrictThreshold ==
    NmsReturned => \A j \in DOMAIN out_scores : out_scores[j] > call.thresh

\* an entry scoring exactly the threshold was examined and another one kept
C2_Witness ==
    /\ NmsReturned
    /\ call.max_boxes = 0
    /\ Len(call.scores) = 2
    /\ call.scores[1] = call.thresh
    /\ call.scores[2] > call.thresh
    /\ Len(out_scores) = 1

(* C8: the three sequences non_max_suppression returns have equal length   *)
(* and are an order-preserving subsequence of the input: strictly          *)
(* increasing input indices, score, box and class of one index together,   *)
(* and every entry below the cap whose score exceeds the threshold among   *)
(* them.                                                                   *)
C8_OrderedSubsequence ==
    (NmsReturned /\ call.scores_kind = "array") =>
        LET n   == Len(call.boxes)
            cap == IF call.max_boxes = 0 THEN n ELSE Min(call.max_boxes, n)
            m   == Len(out_scores)
        IN  /\ Len(out_boxes) = m
            /\ Len(out_classes) = m
            /\ \E idx \in [1..m -> 1..n] :
                   /\ \A j \in 1..m : SameEntry(idx[j], j)
                   /\ \A j \in 1..m : \A l \in 1..m : j < l => idx[j] < idx[l]
                   /\ \A i \in 1..cap : call.scores[i] > call.thresh =>
                          \E j \in 1..m : idx[j] = i

\* three entries, the middle one dropped, the other two kept in order
C8_Witness ==
    /\ NmsReturned
    /\ call.scores_kind = "array"
    /\ Len(call.scores) = 3
    /\ call.scores[2] <= call.thresh
    /\ call.classes[1] # call.classes[3]
    /\ Len(out_scores) = 2
    /\ out_classes = <<call.classes[1], call.classes[3]>>

---------------------------------------------------------------------------
(* C3: with a non-empty allow-list every key of the mapping detect_frame   *)
(* returns is a member of it; with allow-list ["car"], min_score 0.6 and   *)
(* filtered detections car/0.7 and dog/0.9 the mapping is exactly          *)
(* {"car": 0.7}; with an empty allow-list no filtered detection scoring at *)
(* least min_score is left out on account of its label.                    *)
C3_AllowList ==
    DetectReturned =>
        /\ valid_labels # <<>> => DOMAIN detections \subseteq Range(valid_labels)
        /\ (/\ valid_labels = <<"car">>
            /\ min_score = 60
            /\ call.scores = <<70, 90>>
            /\ LabelOfRaw(call.classes[1]) = "car"
            /\ LabelOfRaw(call.classes[2]) = "dog")
           => detections = ("car" :> 70)
        /\ valid_labels = <<>> =>
               \A i \in FilteredIdx : call.scores[i] >= min_score =>
                   LabelOfRaw(call.classes[i]) \in DOMAIN detections

\* the example: car/0.7 and dog/0.9 under allow-list ["car"]
C3_Witness ==
    /\ DetectReturned
    /\ valid_labels = <<"car">>
    /\ min_score = 60
    /\ call.scores = <<70, 90>>
    /\ call.classes = <<2, 17>>
    /\ detections = ("car" :> 70)

(* C4 as stated: when several filtered detections carry one label, the     *)
(* value detect_frame reports for the label is the score of the earliest   *)
(* of them in the original index order.                                    *)
C4_EarliestFilteredWins ==
    DetectReturned =>
        \A label \in DOMAIN detections :
            LET same == {i \in FilteredIdx : LabelOfRaw(call.classes[i]) = label}
            IN  \A i \in same :
                    (\A l \in same : i <= l) => detections[label] = call.scores[i]

(* C4 amended: the value reported for a label is the score of the earliest *)
(* filtered detection with that label among those scoring at least         *)
(* min_score.                                                              *)
C4_EarliestAdmittedWins ==
    DetectReturned =>
        \A label \in DOMAIN detections :
            LET same == {i \in FilteredIdx :
                            /\ LabelOfRaw(call.classes[i]) = label
                            /\ call.scores[i] >= min_score}
            IN  /\ same # {}
                /\ \A i \in same :
                       (\A l \in same : i <= l) => detections[label] = call.scores[i]

\* two admitted detections of one label with different scores
C4_Witness ==
    /\ DetectReturned
    /\ min_score = 60
    /\ call.scores = <<70, 90>>
    /\ call.classes = <<2, 2>>
    /\ detections = ("car" :> 70)

(* C5: a raw detection with class index k is reported under the label at   *)
(* catalog index k + 1 with its score unchanged: every entry of the        *)
(* mapping is the label at index k + 1 and the score of one raw detection, *)
(* every admitted raw detection has its label at index k + 1 in the        *)
(* mapping, class index 0 with score 0.91 is reported as "person" 0.91,    *)
(* and for k in 0..89 the index k + 1 is an index of the 91-entry catalog, *)
(* so that the label lookup fails only for a class index outside 0..89.    *)
C5_ShiftedLabel ==
    /\ Len(class_names) = 91
    /\ class_names[1 + 1] = "person"
    /\ \A k \in 0..89 : (k + 1) \in 0..(Len(class_names) - 1)
    /\ DetectReturned =>
           /\ \A label \in DOMAIN detections :
                  \E i \in FilteredIdx :
                      /\ LabelOfRaw(call.classes[i]) = label
                      /\ call.scores[i] = detections[label]
           /\ \A i \in FilteredIdx :
                  (/\ call.scores[i] >= min_score
                   /\ valid_labels = <<>>)
                  => LabelOfRaw(call.classes[i]) \in DOMAIN detections
           /\ (/\ valid_labels = <<>>
               /\ Len(call.classes) > 1
               /\ call.classes[1] = 0
               /\ call.scores[1] = 91)
              => ("person" \in DOMAIN detections /\ detections["person"] = 91)
    /\ (/\ DetectRaised
        /\ frame.kind = "valid"
        /\ call.invoke_ok
        /\ Len(call.scores) # 1)
       => \E i \in FilteredIdx : call.classes[i] \notin 0..89

\* the example: class index 0 with score 0.91 reported as person 0.91
C5_Witness ==
    /\ DetectReturned
    /\ Len(call.classes) > 1
    /\ call.classes[1] = 0
    /\ call.scores[1] = 91
    /\ "person" \in DOMAIN detections
    /\ detections["person"] = 91

---------------------------------------------------------------------------
\* the frame as it was handed to the call
FrameBefore == [kind |-> call.image_kind, h |-> FrameH, w |-> FrameW, drawn |-> <<>>]

\* the labels draw_boxes has put on the frame
DrawnLabels == {frame.drawn[j].label : j \in DOMAIN frame.drawn}

(* C6: a detect_frame call that fails (preprocessing, interpreter          *)
(* invocation, label lookup or drawing) returns no detections and leaves   *)
(* the frame exactly as it was before the call.                            *)
C6_FailedCallLeavesFrame ==
    DetectRaised => (detections = EmptyMap /\ frame = FrameBefore)

\* a call with draw=True that fails in the label lookup of its first
\* detection, the second one being drawable
C6_Witness ==
    /\ DetectRaised
    /\ call.draw
    /\ frame.kind = "valid"
    /\ call.invoke_ok
    /\ Len(call.scores) = 2
    /\ call.scores[1] > 50
    /\ call.classes[1] \notin 0..89
    /\ call.scores[2] > 50
    /\ call.classes[2] \in 0..89
    /\ valid_labels = <<>>

(* C7 as stated: after detect_frame(draw=True) the set of labels drawn on  *)
(* the frame is the set of labels reported in the mapping, so a detection  *)
(* scoring below min_score is neither reported nor drawn.                  *)
C7_DrawnEqualsReported ==
    (DetectReturned /\ call.draw) => DrawnLabels = DOMAIN detections

(* C9 as stated: the pixel coordinates of every rectangle draw_boxes draws *)
(* lie within the frame: 0 <= left <= w, 0 <= right <= w, 0 <= top <= h    *)
(* and 0 <= bottom <= h.                                                   *)
C9_ClampedToFrame ==
    \A j \in DOMAIN frame.drawn :
        LET a == frame.drawn[j]
        IN  /\ 0 <= a.left /\ a.left <= frame.w
            /\ 0 <= a.right /\ a.right <= frame.w
            /\ 0 <= a.top /\ a.top <= frame.h
            /\ 0 <= a.bottom /\ a.bottom <= frame.h

(* C10: every score in the mapping detect_frame returns is at least        *)
(* min_score and strictly greater than 0.5 and is the score of one of the  *)
(* first 10 model outputs, reported under that output's label; the mapping *)
(* never has more than 10 labels.                                          *)
C10_DefaultsAlwaysApply ==
    DetectReturned =>
        /\ Cardinality(DOMAIN detections) <= 10
        /\ \A label \in DOMAIN detections :
               /\ detections[label] >= min_score
               /\ detections[label] > 50
               /\ \E i \in 1..Min(10, Len(call.scores)) :
                      /\ call.scores[i] = detections[label]
                      /\ LabelOfRaw(call.classes[i]) = label

\* min_score 0.4 configured, a detection scoring exactly 0.5 left out and
\* one scoring 0.55 reported
C10_Witness ==
    /\ DetectReturned
    /\ min_score = 40
    /\ valid_labels = <<>>
    /\ call.scores = <<50, 55>>
    /\ call.classes = <<2, 17>>
    /\ detections = ("dog" :> 55)

====
